---- MODULE Spec2Model ----
(***************************************************************************)
(* A model of the simlin dependency analyser (engine-core/src/model.rs),   *)
(* of the mdl command line front-end (mdl/src/main.rs) and of the small    *)
(* helpers around them.  Strings are tuples of one-character strings so    *)
(* that prefix tests and splitting at '.' are computed, not assumed.       *)
(***************************************************************************)
EXTENDS Naturals, Integers, Sequences, FiniteSets, TLC

\* ------------------------------------------------------------------ bounds

\* total number of direct-dep entries over the whole variable list
MaxEdges == 3

\* ----------------------------------------------------------------- strings

\* the identifiers of model variables: one-segment names without a dot
IdentNames == <<"a", "b", "c">>
Idents == { <<IdentNames[i]>> : i \in 1..Len(IdentNames) }

\* a qualified reference into a submodule: "b.o"
DottedRef == <<"b", ".", "o">>

\* an absolute reference: backslash dot b
AbsoluteRef == <<"\\", ".", "b">>

\* the raw strings that may appear in a variable's direct_deps
DepStrings == Idents \cup {DottedRef, AbsoluteRef}

\* str::starts_with
StartsWith(s, p) ==
    /\ Len(s) >= Len(p)
    /\ \A i \in 1..Len(p) : s[i] = p[i]

\* the two-character prefix tested at model.rs:65
AbsolutePrefix == <<"\\", ".">>

\* dep.splitn(2, '.').next().unwrap(): the text before the first '.'
FirstSegment(s) ==
    LET dots == { i \in 1..Len(s) : s[i] = "." }
    IN  IF dots = {} THEN s
        ELSE LET first == CHOOSE i \in dots : \A j \in dots : i <= j
             IN  SubSeq(s, 1, first - 1)

\* --------------------------------------------------------------- variables

Kinds == {"stock", "flow", "aux", "module"}

\* Variable::is_stock
IsStock(v) == v.kind = "stock"

\* Variable::direct_deps: the references of the equation (of the init
\* equation for a stock); a stock's inflows and outflows are kept apart
DirectDeps(v) == v.direct_deps

\* Variable::ident
IdentOf(v) == v.ident

\* Option<HashSet<Ident>>: None is the empty tuple, Some(s) is <<s>>
None == <<>>
Some(s) == <<s>>
IsSome(o) == Len(o) = 1
Unwrap(o) == o[1]

EmptyMap == [k \in {} |-> {}]

SeqRange(s) == { s[i] : i \in 1..Len(s) }

VARIABLES
    calls,        \* the all_deps invocations to make: <<[vars, is_initial], ...>>
    results,      \* what the invocations made so far returned
    processing,   \* all_deps: the active-path set
    all_var_deps, \* all_deps: ident -> Option<set of idents>
    stack,        \* the frames of all_deps_inner: [id, todo, all_deps]
    idx,          \* position of the top-level loop in vars (1-based)
    model,        \* the Model built by Model::new, or NoModel
    args,         \* mdl: the command line
    pc,           \* mdl: where main is
    exit_code,    \* mdl: the exit status, once exited
    stderr,       \* mdl: the messages printed to stderr
    project,      \* mdl: what the reader returned
    out_file,     \* mdl: the output file: None, or Some(bytes written)
    found_model_error, \* mdl: main's flag of that name
    invoked,      \* mdl: the simulation stages called so far
    ended,        \* mdl: how main ended
    x_module,     \* parse_var: the declared module
    parsed,       \* parse_var: the Variable::Module built from it
    sim_err,      \* mdl: the error Simulation::new returned, or None
    dimension,    \* get_offset: the Dimension (name, elements)
    subscript,    \* get_offset: the subscript looked up
    offset,       \* get_offset: what the call returned, once made
    units,        \* Context::new: the list of datamodel Units
    ctx,          \* Context::new: what the call returned, once made
    verified      \* verify_all_deps: idle, running, panicked or passed

depsVars == <<calls, results, processing, all_var_deps, stack, idx, model>>
cliVars == <<args, pc, exit_code, stderr, project, out_file, found_model_error,
             invoked, ended, sim_err>>
parseVars == <<x_module, parsed>>
dimVars == <<dimension, subscript, offset>>
unitVars == <<units, ctx>>
testVars == <<verified>>

vars == <<depsVars, cliVars, parseVars, dimVars, unitVars, testVars>>

\* what the dependency analysis leaves alone
restOfDeps == <<cliVars, parseVars, dimVars, unitVars, testVars>>
\* what the command line front-end leaves alone
restOfCli == <<depsVars, parseVars, dimVars, unitVars, testVars>>
\* what parse_var leaves alone
restOfParse == <<depsVars, cliVars, dimVars, unitVars, testVars>>
\* what get_offset leaves alone
restOfDim == <<depsVars, cliVars, parseVars, unitVars, testVars>>
\* what Context::new leaves alone
restOfUnits == <<depsVars, cliVars, parseVars, dimVars, testVars>>

\* ------------------------------------------------------------ idle parts

NoArgs == [help |-> FALSE, malformed |-> FALSE, subcommand |-> "none",
           is_model_only |-> FALSE, is_vensim |-> FALSE, has_path |-> FALSE]

NoProject == [tag |-> "None", models |-> <<>>]

\* the command line front-end is not running
CliIdle ==
    /\ args = NoArgs
    /\ pc = "idle"
    /\ exit_code = -1
    /\ stderr = <<>>
    /\ project = NoProject
    /\ out_file = None
    /\ found_model_error = FALSE
    /\ invoked = {}
    /\ ended = "running"
    /\ sim_err = None

NoModule == [name |-> <<>>, refs |-> <<>>]

\* parse_var is not running
ParseIdle ==
    /\ x_module = NoModule
    /\ parsed = None

NoDimension == [name |-> <<>>, elements |-> <<>>]

\* get_offset is not running
DimIdle ==
    /\ dimension = NoDimension
    /\ subscript = <<>>
    /\ offset = <<>>

\* Context::new is not running
UnitsIdle ==
    /\ units = <<>>
    /\ ctx = <<>>

\* the test verify_all_deps is not running
TestIdle == verified = "idle"

\* the dependency analysis is not running
DepsIdle ==
    /\ calls = <<>>
    /\ results = <<>>
    /\ processing = {}
    /\ all_var_deps = EmptyMap
    /\ stack = <<>>
    /\ idx = 1
    /\ model = <<>>

\* ------------------------------------------------------------ input lists

\* the lists of n distinct identifiers in identifier order.  Every labelling
\* of a dependency graph is among the inputs, so each graph is met in every
\* traversal order; permuted lists proper are the subject of SpecShuffle.
IdentLists(n) ==
    { [i \in 1..n |-> <<IdentNames[l[i]]>>] :
        l \in { m \in [1..n -> 1..Len(IdentNames)] :
                  \A i, j \in 1..n : i < j => m[i] < m[j] } }

\* the lists analysed in two orders: those of IdentLists, and the lists in
\* which one identifier comes twice, ahead of the others (all_deps takes any
\* slice of variables); the permutations of a list give its other orders
IdentListsRepeated(n) ==
    IdentLists(n) \cup
    { [i \in 1..n |-> IF i = 1 THEN l[1] ELSE l[i - 1]] :
        l \in IF n >= 2 THEN { m \in IdentLists(n - 1) : m[1] = <<IdentNames[1]>> }
               ELSE {} }

\* the direct deps of n variables: at most MaxEdges entries in all
DepChoices(n) ==
    { e \in SUBSET ((1..n) \X DepStrings) : Cardinality(e) <= MaxEdges }

NonStockKinds == <<"flow", "aux", "module">>

\* the kinds of n variables: each a stock or not, the others taking the
\* three remaining kinds in turn from rotation r
KindChoicesFrom(n, R) ==
    { [i \in 1..n |-> IF i \in st THEN "stock" ELSE NonStockKinds[((i + r) % 3) + 1]] :
        st \in SUBSET (1..n), r \in R }

KindChoices(n) == KindChoicesFrom(n, 0..2)

\* a stock's inflows: here every flow of the list flows into every stock
FlowIdents(ids, kind) == { ids[i] : i \in { j \in 1..Len(ids) : kind[j] = "flow" } }

MkVariable(ids, kind, e, i) ==
    [ident |-> ids[i], kind |-> kind[i],
     direct_deps |-> { d \in DepStrings : <<i, d>> \in e },
     inflows |-> IF kind[i] = "stock" THEN FlowIdents(ids, kind) ELSE {}]

\* the permutations of a list (slice::shuffle may produce any of them)
Shuffles(vl) ==
    { [i \in 1..Len(vl) |-> vl[p[i]]] :
        p \in { q \in [1..Len(vl) -> 1..Len(vl)] :
                  \A i, j \in 1..Len(vl) : i # j => q[i] # q[j] } }

\* ------------------------------------------------------- all_deps (28-118)

Running == Len(results) < Len(calls)
Cur == calls[Len(results) + 1]
CurVars == Cur.vars
IsInitial == Cur.is_initial

\* model.rs:30-31: collect() keeps the last variable of an ident
AllVarsOf(vl) ==
    [id \in { IdentOf(vl[i]) : i \in 1..Len(vl) } |->
        vl[CHOOSE i \in 1..Len(vl) :
              /\ IdentOf(vl[i]) = id
              /\ \A j \in 1..Len(vl) : IdentOf(vl[j]) = id => j <= i]]

all_vars == AllVarsOf(CurVars)

\* model.rs:32-33
FreshVarDeps(vl) == [id \in { IdentOf(vl[i]) : i \in 1..Len(vl) } |-> None]

Ok(m) == [tag |-> "Ok", deps |-> m, code |-> "", id |-> <<>>]
Err(code, id) == [tag |-> "Err", deps |-> EmptyMap, code |-> code, id |-> id]
Panic == [tag |-> "Panic", deps |-> EmptyMap, code |-> "", id |-> <<>>]

\* IsCut that cuts at stocks in the initial pass too
IsCutAlways(v, is_initial) == IsStock(v)

\* IsCut with the two passes exchanged
IsCutInverted(v, is_initial) == IsStock(v) /\ is_initial

\* IsCut without the cut: stocks analysed like any variable in every pass
IsCutNever(v, is_initial) == FALSE

\* model.rs:52: dependency chains break at stocks outside the initial pass
IsCut(v, is_initial) == IsStock(v) /\ ~is_initial

\* model.rs:45-55: all_deps_inner returns before it touches the active path
ReturnsAtOnce(id) == IsSome(all_var_deps[id]) \/ IsCut(all_vars[id], IsInitial)

\* model.rs:45-55: the memo table after such an early return
MemoAtOnce(id) ==
    IF IsSome(all_var_deps[id]) THEN all_var_deps
    ELSE [all_var_deps EXCEPT ![id] = Some({})]

\* model.rs:57-60: the frame of a fresh all_deps_inner(id)
NewFrame(id) == [id |-> id, todo |-> DirectDeps(all_vars[id]), all_deps |-> {}]

Top == stack[Len(stack)]
Below == SubSeq(stack, 1, Len(stack) - 1)

\* WithDep that inserts every resolved dep, stocks included, in every pass
WithDepAlways(acc, dep, is_initial) == acc \cup {dep}

\* WithDep with the test of line 77 negated
WithDepInverted(acc, dep, is_initial) ==
    IF ~IsStock(all_vars[dep]) \/ is_initial THEN acc ELSE acc \cup {dep}

\* model.rs:77-79: the dep itself joins the set unless it is a cut stock
WithDep(acc, dep, is_initial) ==
    IF ~IsStock(all_vars[dep]) \/ is_initial THEN acc \cup {dep} ELSE acc

\* Extend that forgets the dep's own set
ExtendDropped(acc, dep_deps) == acc

\* model.rs:90-91: extend with the dep's own set
Extend(acc, dep_deps) == acc \cup dep_deps

\* model.rs:72: the truncated dep names a variable of the list
Resolves(d) == FirstSegment(d) \in DOMAIN all_vars

\* IsAbsolute testing for a leading dot instead of backslash dot
IsAbsoluteDot(d) == StartsWith(d, <<".">>)

\* model.rs:65
IsAbsolute(d) == StartsWith(d, AbsolutePrefix)

\* all_deps returns r: the next invocation (if any) starts with fresh locals
AllDepsReturn(r) ==
    /\ results' = Append(results, r)
    /\ processing' = {}
    /\ stack' = <<>>
    /\ idx' = 1
    /\ all_var_deps' = IF Len(results) + 2 <= Len(calls)
                       THEN FreshVarDeps(calls[Len(results) + 2].vars)
                       ELSE EmptyMap
    /\ UNCHANGED <<calls, model, restOfDeps>>

\* model.rs:101-109: the top-level loop calls all_deps_inner(var.ident())
TopCall ==
    /\ Running /\ stack = <<>> /\ idx <= Len(CurVars)
    /\ LET id == IdentOf(CurVars[idx])
       IN  IF ReturnsAtOnce(id)
           THEN /\ all_var_deps' = MemoAtOnce(id)
                /\ idx' = idx + 1
                /\ UNCHANGED <<processing, stack>>
           ELSE /\ processing' = processing \cup {id}
                /\ stack' = <<NewFrame(id)>>
                /\ UNCHANGED <<all_var_deps, idx>>
    /\ UNCHANGED <<calls, results, model, restOfDeps>>

\* model.rs:65-67
DepAbsolute ==
    /\ Running /\ stack # <<>>
    /\ \E d \in Top.todo :
         /\ IsAbsolute(d)
         /\ AllDepsReturn(Err("NoAbsoluteReferences", Top.id))

\* DepUnresolved turned into an error, as the TODO of line 73 suggests
DepUnresolvedFails ==
    /\ Running /\ stack # <<>>
    /\ \E d \in Top.todo :
         /\ ~IsAbsolute(d) /\ ~Resolves(d)
         /\ AllDepsReturn(Err("UnknownDependency", Top.id))

\* model.rs:70-75
DepUnresolved ==
    /\ Running /\ stack # <<>>
    /\ \E d \in Top.todo :
         /\ ~IsAbsolute(d) /\ ~Resolves(d)
         /\ stack' = [stack EXCEPT ![Len(stack)].todo = @ \ {d}]
    /\ UNCHANGED <<calls, results, processing, all_var_deps, idx, model, restOfDeps>>

\* DepCircular that skips a dep found on the active path instead of failing
DepCircularSkips ==
    /\ Running /\ stack # <<>>
    /\ \E d \in Top.todo :
         /\ ~IsAbsolute(d) /\ Resolves(d)
         /\ FirstSegment(d) \in processing
         /\ stack' = [stack EXCEPT ![Len(stack)].todo = @ \ {d}]
    /\ UNCHANGED <<calls, results, processing, all_var_deps, idx, model, restOfDeps>>

\* model.rs:77-84
DepCircular ==
    /\ Running /\ stack # <<>>
    /\ \E d \in Top.todo :
         /\ ~IsAbsolute(d) /\ Resolves(d)
         /\ FirstSegment(d) \in processing
         /\ AllDepsReturn(Err("CircularDependency", Top.id))

\* DepMemoized that takes the dep but not the dep's memoized set
DepMemoizedNoExtend ==
    /\ Running /\ stack # <<>>
    /\ \E d \in Top.todo :
         LET dep == FirstSegment(d)
         IN  /\ ~IsAbsolute(d) /\ Resolves(d)
             /\ dep \notin processing
             /\ IsSome(all_var_deps[dep])
             /\ stack' = [stack EXCEPT
                    ![Len(stack)].todo = @ \ {d},
                    ![Len(stack)].all_deps = WithDep(@, dep, IsInitial)]
    /\ UNCHANGED <<calls, results, processing, all_var_deps, idx, model, restOfDeps>>

\* model.rs:77-91 with the dep already computed
DepMemoized ==
    /\ Running /\ stack # <<>>
    /\ \E d \in Top.todo :
         LET dep == FirstSegment(d)
         IN  /\ ~IsAbsolute(d) /\ Resolves(d)
             /\ dep \notin processing
             /\ IsSome(all_var_deps[dep])
             /\ stack' = [stack EXCEPT
                    ![Len(stack)].todo = @ \ {d},
                    ![Len(stack)].all_deps =
                        Extend(WithDep(@, dep, IsInitial), Unwrap(all_var_deps[dep]))]
    /\ UNCHANGED <<calls, results, processing, all_var_deps, idx, model, restOfDeps>>

\* model.rs:77-91 with the recursive call of line 87
DepRecurse ==
    /\ Running /\ stack # <<>>
    /\ \E d \in Top.todo :
         LET dep == FirstSegment(d)
             caller == [Top EXCEPT !.todo = @ \ {d},
                                   !.all_deps = WithDep(@, dep, IsInitial)]
         IN  /\ ~IsAbsolute(d) /\ Resolves(d)
             /\ dep \notin processing
             /\ ~IsSome(all_var_deps[dep])
             /\ IF ReturnsAtOnce(dep)
                THEN /\ all_var_deps' = MemoAtOnce(dep)
                     /\ stack' = Below \o
                          << [caller EXCEPT !.all_deps =
                                Extend(@, Unwrap(MemoAtOnce(dep)[dep]))] >>
                     /\ UNCHANGED processing
                ELSE /\ processing' = processing \cup {dep}
                     /\ stack' = Below \o <<caller, NewFrame(dep)>>
                     /\ UNCHANGED all_var_deps
    /\ UNCHANGED <<calls, results, idx, model, restOfDeps>>

\* InnerReturn that memoizes the variable but leaves it on the active path
InnerReturnKeepsActive ==
    /\ Running /\ stack # <<>>
    /\ Top.todo = {}
    /\ processing' = processing
    /\ all_var_deps' = [all_var_deps EXCEPT ![Top.id] = Some(Top.all_deps)]
    /\ IF Len(stack) > 1
       THEN /\ stack' = SubSeq(stack, 1, Len(stack) - 2) \o
                 << [stack[Len(stack) - 1] EXCEPT !.all_deps = Extend(@, Top.all_deps)] >>
            /\ UNCHANGED idx
       ELSE /\ stack' = <<>>
            /\ idx' = idx + 1
    /\ UNCHANGED <<calls, results, model, restOfDeps>>

\* InnerReturn that leaves the active path without memoizing the dep-set
InnerReturnNoMemo ==
    /\ Running /\ stack # <<>>
    /\ Top.todo = {}
    /\ processing' = processing \ {Top.id}
    /\ all_var_deps' = all_var_deps
    /\ IF Len(stack) > 1
       THEN /\ stack' = SubSeq(stack, 1, Len(stack) - 2) \o
                 << [stack[Len(stack) - 1] EXCEPT !.all_deps = Extend(@, Top.all_deps)] >>
            /\ UNCHANGED idx
       ELSE /\ stack' = <<>>
            /\ idx' = idx + 1
    /\ UNCHANGED <<calls, results, model, restOfDeps>>

\* model.rs:94-98, then lines 90-91 in the caller or the next loop turn
InnerReturn ==
    /\ Running /\ stack # <<>>
    /\ Top.todo = {}
    /\ processing' = processing \ {Top.id}
    /\ all_var_deps' = [all_var_deps EXCEPT ![Top.id] = Some(Top.all_deps)]
    /\ IF Len(stack) > 1
       THEN /\ stack' = SubSeq(stack, 1, Len(stack) - 2) \o
                 << [stack[Len(stack) - 1] EXCEPT !.all_deps = Extend(@, Top.all_deps)] >>
            /\ UNCHANGED idx
       ELSE /\ stack' = <<>>
            /\ idx' = idx + 1
    /\ UNCHANGED <<calls, results, model, restOfDeps>>

\* model.rs:111-117: unwrap every entry
Collect(memo) ==
    IF \E id \in DOMAIN memo : ~IsSome(memo[id]) THEN Panic
    ELSE Ok([id \in DOMAIN memo |-> Unwrap(memo[id])])

AllDepsFinish ==
    /\ Running /\ stack = <<>> /\ idx > Len(CurVars)
    /\ AllDepsReturn(Collect(all_var_deps))

\* --------------------------------------------------- Model::new (121-164)

NoModel == <<>>

\* model.rs:133-147
DepsField(r) == IF r.tag = "Ok" THEN Some(r.deps) ELSE None

\* model.rs:131-147: one error pushed per failed analysis, dt first
PushedErrors(rs) ==
    LET failed == { i \in 1..Len(rs) : rs[i].tag = "Err" }
        F[i \in 0..Len(rs)] ==
            IF i = 0 THEN <<>>
            ELSE IF i \in failed
                 THEN Append(F[i - 1], [code |-> rs[i].code, id |-> rs[i].id])
                 ELSE F[i - 1]
    IN  F[Len(rs)]

\* MaybeErrors with the match arm off by one
MaybeErrorsOffByOne(errors) == IF Len(errors) <= 1 THEN None ELSE Some(errors)

\* model.rs:149-152
MaybeErrors(errors) == IF Len(errors) = 0 THEN None ELSE Some(errors)

ModelNew ==
    /\ model = NoModel
    /\ Len(calls) = 2 /\ Len(results) = 2
    /\ \A i \in 1..2 : results[i].tag # "Panic"
    /\ model' = << [dt_deps |-> DepsField(results[1]),
                    initial_deps |-> DepsField(results[2]),
                    errors |-> MaybeErrors(PushedErrors(results))] >>
    /\ UNCHANGED <<calls, results, processing, all_var_deps, stack, idx, restOfDeps>>

AllDepsNext ==
    \/ TopCall
    \/ DepAbsolute
    \/ DepUnresolved
    \/ DepCircular
    \/ DepMemoized
    \/ DepRecurse
    \/ InnerReturn
    \/ AllDepsFinish

\* Model::new: the dt analysis, then the initial analysis, of one list
Init ==
    /\ \E n \in 0..Len(IdentNames) :
         \E e \in DepChoices(n) :
           \E ids \in IdentLists(n) :
             \E kind \in KindChoices(n) :
               LET vl == [i \in 1..n |-> MkVariable(ids, kind, e, i)]
               IN  /\ calls = << [vars |-> vl, is_initial |-> FALSE],
                                 [vars |-> vl, is_initial |-> TRUE] >>
                   /\ all_var_deps = FreshVarDeps(vl)
    /\ results = <<>>
    /\ processing = {}
    /\ stack = <<>>
    /\ idx = 1
    /\ model = NoModel
    /\ CliIdle
    /\ ParseIdle
    /\ DimIdle
    /\ UnitsIdle
    /\ TestIdle

Next ==
    \/ TopCall
    \/ DepAbsolute
    \/ DepUnresolved
    \/ DepCircular
    \/ DepMemoized
    \/ DepRecurse
    \/ InnerReturn
    \/ AllDepsFinish
    \/ ModelNew

Spec == Init /\ [][Next]_vars

\* --------------------------------------- verify_all_deps (model.rs:392-432)

\* the shuffles made by one verify_all_deps (the loop of line 426 makes 16)
MaxShuffles == 1

\* every analysis made so far returned Ok (the unwraps of lines 407 and 429)
\* with the expected map (the assert_eq! of lines 422 and 430); the
\* expectation is an input: it is the first map, or the test has failed
\* at line 422
AllAsExpected ==
    \A i \in 1..Len(results) :
        /\ results[i].tag = "Ok"
        /\ results[i].deps = results[1].deps

\* model.rs:426-431: shuffle the list as the last shuffle left it and
\* analyse it again in the same mode
Shuffle ==
    /\ verified = "running"
    /\ Len(results) = Len(calls) /\ Len(calls) <= MaxShuffles
    /\ AllAsExpected
    /\ \E p \in Shuffles(calls[Len(calls)].vars) :
         /\ calls' = Append(calls, [vars |-> p, is_initial |-> calls[1].is_initial])
         /\ all_var_deps' = FreshVarDeps(p)
    /\ UNCHANGED <<results, processing, stack, idx, model, restOfDeps>>

\* model.rs:407, 422, 429, 430: an unwrap or an assert_eq! panics: the
\* analysis just made failed, or its map is not the expected one (after the
\* first analysis the expectation given by the test may be any map)
VerifyPanics ==
    /\ verified = "running"
    /\ Len(results) = Len(calls)
    /\ ~AllAsExpected \/ Len(results) = 1
    /\ verified' = "panicked"
    /\ UNCHANGED <<depsVars, cliVars, parseVars, dimVars, unitVars>>

\* model.rs:432: verify_all_deps returns
VerifyPasses ==
    /\ verified = "running"
    /\ Len(results) = Len(calls) /\ Len(calls) = MaxShuffles + 1
    /\ AllAsExpected
    /\ verified' = "passed"
    /\ UNCHANGED <<depsVars, cliVars, parseVars, dimVars, unitVars>>

InitShuffle ==
    /\ \E n \in 0..Len(IdentNames) :
         \E e \in DepChoices(n) :
           \E ids \in IdentLists(n) :
             \E kind \in KindChoicesFrom(n, {0}) :
               \E is_initial \in BOOLEAN :
                 LET vl == [i \in 1..n |-> MkVariable(ids, kind, e, i)]
                 IN  /\ calls = << [vars |-> vl, is_initial |-> is_initial] >>
                     /\ all_var_deps = FreshVarDeps(vl)
    /\ results = <<>>
    /\ processing = {}
    /\ stack = <<>>
    /\ idx = 1
    /\ model = NoModel
    /\ verified = "running"
    /\ CliIdle
    /\ ParseIdle
    /\ DimIdle
    /\ UnitsIdle

NextShuffle ==
    \/ TopCall
    \/ DepAbsolute
    \/ DepUnresolved
    \/ DepCircular
    \/ DepMemoized
    \/ DepRecurse
    \/ InnerReturn
    \/ AllDepsFinish
    \/ Shuffle
    \/ VerifyPanics
    \/ VerifyPasses

SpecShuffle == InitShuffle /\ [][NextShuffle]_vars

\* ------------------------------------- all_deps on a list and a permutation

\* all_deps applied to a list and then to a permutation of it, same mode;
\* the list may hold several variables of one ident
InitPermuted ==
    /\ \E n \in 0..Len(IdentNames) :
         \E e \in DepChoices(n) :
           \E ids \in IdentListsRepeated(n) :
             \E kind \in KindChoicesFrom(n, {0}) :
               \E is_initial \in BOOLEAN :
                 LET vl == [i \in 1..n |-> MkVariable(ids, kind, e, i)]
                 IN  /\ \E p \in Shuffles(vl) :
                          calls = << [vars |-> vl, is_initial |-> is_initial],
                                     [vars |-> p, is_initial |-> is_initial] >>
                     /\ all_var_deps = FreshVarDeps(vl)
    /\ results = <<>>
    /\ processing = {}
    /\ stack = <<>>
    /\ idx = 1
    /\ model = NoModel
    /\ TestIdle
    /\ CliIdle
    /\ ParseIdle
    /\ DimIdle
    /\ UnitsIdle

NextPermuted ==
    \/ TopCall
    \/ DepAbsolute
    \/ DepUnresolved
    \/ DepCircular
    \/ DepMemoized
    \/ DepRecurse
    \/ InnerReturn
    \/ AllDepsFinish

SpecPermuted == InitPermuted /\ [][NextPermuted]_vars

\* ------------------------------------------- the dependency graph of a list

\* the list under analysis
InputList == calls[1].vars

IdentsOf(vl) == { vl[i].ident : i \in 1..Len(vl) }

VarOf(vl, id) == vl[CHOOSE i \in 1..Len(vl) : vl[i].ident = id]

StocksOf(vl) == { id \in IdentsOf(vl) : VarOf(vl, id).kind = "stock" }

\* the variables of the list that id refers to directly
Succ(vl, id) ==
    { FirstSegment(d) : d \in { x \in VarOf(vl, id).direct_deps :
                                  ~StartsWith(x, <<"\\", ".">>) } }
      \cap IdentsOf(vl)

\* what can be reached from the set S along edges that leave a node of Thru
RECURSIVE Closure(_, _, _, _)
Closure(vl, S, Thru, n) ==
    IF n = 0 THEN S
    ELSE Closure(vl, S \cup UNION { Succ(vl, t) : t \in S \cap Thru }, Thru, n - 1)

\* the transitive dependencies of id
TransDeps(vl, id) == Closure(vl, Succ(vl, id), IdentsOf(vl), Len(vl))

\* the same with every stock a source: edges leaving a stock are dropped
TransDepsCut(vl, id) ==
    IF id \in StocksOf(vl) THEN {}
    ELSE Closure(vl, Succ(vl, id), IdentsOf(vl) \ StocksOf(vl), Len(vl))

HasCycle(vl) == \E id \in IdentsOf(vl) : id \in TransDeps(vl, id)

OnNonStockCycle(vl, id) == id \in TransDepsCut(vl, id)

HasNonStockCycle(vl) == \E id \in IdentsOf(vl) : OnNonStockCycle(vl, id)

AbsoluteUsers(vl) ==
    { id \in IdentsOf(vl) :
        \E d \in VarOf(vl, id).direct_deps : StartsWith(d, <<"\\", ".">>) }

HasUnresolved(vl) ==
    \E id \in IdentsOf(vl) : \E d \in VarOf(vl, id).direct_deps :
        ~StartsWith(d, <<"\\", ".">>) /\ FirstSegment(d) \notin IdentsOf(vl)

Returned(i) == Len(results) >= i

\* ------------------------------------------------- mdl (mdl/src/main.rs)

\* at most this many models in a project read by mdl
MaxModels == 2

\* main.rs:17
EXIT_FAILURE == 1

\* the exit status of a Rust process whose main thread panics (a failed
\* unwrap, an index out of bounds)
PanicStatus == 101

Subcommands == {"none", "convert", "simulate", "other"}

ArgChoices ==
    [help : BOOLEAN, malformed : BOOLEAN, subcommand : Subcommands,
     is_model_only : BOOLEAN, is_vensim : BOOLEAN, has_path : BOOLEAN]

\* Model.errors of one analysed model: None or Some(non-empty list)
ModelErrorChoices ==
    { None, Some(<<"VariablesHaveErrors">>), Some(<<"CircularDependency">>) }

\* one model of a project: whether get_variable_errors is non-empty, and
\* the model-level errors
ModelChoices(i) ==
    { [name |-> i, has_var_errors |-> ve, errors |-> es] :
        ve \in BOOLEAN, es \in ModelErrorChoices }

\* the projects a reader may return: up to MaxModels models
ProjectChoices ==
    UNION { { [tag |-> "Ok", models |-> [i \in 1..n |-> f[i]]] :
                f \in { g \in [1..n -> UNION { ModelChoices(i) : i \in 1..n }] :
                          \A i \in 1..n : g[i].name = i } }
            : n \in 0..MaxModels }

ReaderError == [tag |-> "Err", models |-> <<>>]

\* prost's Message::encode of one model / of the whole project
EncodeModel(m) == <<"model", m.name>>
EncodeProject(p) == <<"project", [i \in 1..Len(p.models) |-> p.models[i].name]>>

\* main.rs:20-26: die!: print and exit(EXIT_FAILURE)
Die(msgs, how) ==
    /\ stderr' = stderr \o msgs
    /\ exit_code' = EXIT_FAILURE
    /\ pc' = "exit"
    /\ ended' = how

\* a panic: the message goes to stderr, the process ends with PanicStatus
PanicExit(how) ==
    /\ stderr' = Append(stderr, "panic")
    /\ exit_code' = PanicStatus
    /\ pc' = "exit"
    /\ ended' = how

\* main returns normally
ReturnFromMain(how) ==
    /\ exit_code' = 0
    /\ pc' = "exit"
    /\ ended' = how

\* main.rs:63-108: parse_args and the match on its result
ParseArgs ==
    /\ pc = "start"
    /\ IF args.help
       THEN Die(<<"usage">>, "usage")
       ELSE IF args.malformed
       THEN Die(<<"error: bad arguments", "usage">>, "usage")
       ELSE IF args.subcommand = "none"
       THEN Die(<<"error: subcommand required", "usage">>, "usage")
       ELSE IF args.subcommand \notin {"convert", "simulate"}
       THEN Die(<<"error: unknown subcommand", "usage">>, "usage")
       ELSE IF ~args.has_path
       THEN Die(<<"error: input path required", "usage">>, "usage")
       ELSE /\ pc' = "open"
            /\ UNCHANGED <<exit_code, stderr, ended>>
    /\ UNCHANGED <<args, project, out_file, found_model_error, invoked, sim_err, restOfCli>>

\* main.rs:109-111: File::open(..).unwrap()
OpenFile ==
    /\ pc = "open"
    /\ \E opened \in BOOLEAN :
         IF opened
         THEN /\ pc' = "read"
              /\ UNCHANGED <<exit_code, stderr, ended>>
         ELSE PanicExit("open_failed")
    /\ UNCHANGED <<args, project, out_file, found_model_error, invoked, sim_err, restOfCli>>

\* main.rs:113-124: the reader; on an error main prints it and returns
ReadProject ==
    /\ pc = "read"
    /\ \E p \in ProjectChoices \cup {ReaderError} :
         /\ project' = p
         /\ IF p.tag = "Err"
            THEN /\ stderr' = Append(stderr, "model error")
                 /\ ReturnFromMain("reader_error")
            ELSE /\ pc' = IF args.subcommand = "convert" THEN "convert" ELSE "report"
                 /\ UNCHANGED <<exit_code, stderr, ended>>
    /\ UNCHANGED <<args, out_file, found_model_error, invoked, sim_err, restOfCli>>

\* main.rs:130: the --model-only test
ModelOnlyRejected(n) == n # 1

\* main.rs:127-140: the bytes to write
ConvertBuf ==
    IF args.is_model_only THEN EncodeModel(project.models[1])
    ELSE EncodeProject(project)

\* main.rs:126-145: the convert subcommand.  File::create (142-143) leaves
\* an empty file, write_all (144) fills it; each is unwrapped, and a failed
\* write_all leaves the bytes that went out before the failure.  models[0]
\* (133) would panic on an empty list, which the test of line 130 excludes.
Convert ==
    /\ pc = "convert"
    /\ LET n == Len(project.models)
       IN  IF args.is_model_only /\ ModelOnlyRejected(n)
           THEN /\ Die(<<"--model-only specified, but more than 1 model in this project">>,
                       "model_only_rejected")
                /\ UNCHANGED out_file
           ELSE IF args.is_model_only /\ n = 0
           THEN /\ PanicExit("index_out_of_bounds")
                /\ UNCHANGED out_file
           ELSE \E created \in BOOLEAN :
                  IF ~created
                  THEN /\ PanicExit("create_failed")
                       /\ UNCHANGED out_file
                  ELSE \E k \in 0..Len(ConvertBuf) :
                         /\ out_file' = Some(SubSeq(ConvertBuf, 1, k))
                         /\ IF k = Len(ConvertBuf)
                            THEN /\ UNCHANGED stderr
                                 /\ ReturnFromMain("converted")
                            ELSE PanicExit("write_failed")
    /\ UNCHANGED <<args, project, found_model_error, invoked, sim_err, restOfCli>>

\* main.rs:179-187: the model-level errors main prints for one model
PrintedErrors(m) ==
    IF m.errors = None THEN <<>>
    ELSE SelectSeq(Unwrap(m.errors),
                   LAMBDA code : ~(code = "VariablesHaveErrors" /\ m.has_var_errors))

\* main.rs:150-187: the lines printed for the first i models of the project
ReportLines(i) ==
    LET F[j \in 0..i] ==
            IF j = 0 THEN <<>>
            ELSE F[j - 1]
                 \o (IF project.models[j].has_var_errors
                     THEN <<"error in variable">> ELSE <<>>)
                 \o [k \in 1..Len(PrintedErrors(project.models[j])) |-> "error in model"]
    IN  F[i]

\* main.rs:147-188: report the errors of every model.  For a variable with
\* errors the loop asserts that the list is not empty (158) and unwraps the
\* datamodel's variable of that ident (159): either can panic, at model
\* panic_at, after the lines of the models before it and perhaps the lines
\* of earlier variables of the same model.  panic_at = 0: no panic.
Report ==
    /\ pc = "report"
    /\ \E panic_at \in 0..Len(project.models) :
         IF panic_at = 0
         THEN /\ stderr' = stderr \o ReportLines(Len(project.models))
              /\ found_model_error' =
                    \E i \in 1..Len(project.models) : PrintedErrors(project.models[i]) # <<>>
              /\ pc' = "sim_new"
              /\ UNCHANGED <<exit_code, ended>>
         ELSE /\ project.models[panic_at].has_var_errors
              /\ \E earlier \in {<<>>, <<"error in variable">>} :
                    /\ stderr' = stderr \o ReportLines(panic_at - 1) \o earlier \o <<"panic">>
              /\ exit_code' = PanicStatus
              /\ pc' = "exit"
              /\ ended' = "report_panicked"
              /\ found_model_error' =
                    \E i \in 1..(panic_at - 1) : PrintedErrors(project.models[i]) # <<>>
    /\ UNCHANGED <<args, project, out_file, invoked, sim_err, restOfCli>>

SimNewResults == {"Ok", "NotSimulatable", "DoesNotExist"}

\* ErrorShown that hides every NotSimulatable error
ErrorShownUnlessNotSimulatable(code, found) == code # "NotSimulatable"

\* main.rs:192: the error is printed unless it is NotSimulatable and a
\* model error was already reported
ErrorShown(code, found) == ~(code = "NotSimulatable" /\ found)

\* main.rs:189-197: Simulation::new(&project, "main")
SimNew ==
    /\ pc = "sim_new"
    /\ \E r \in SimNewResults :
         IF r = "Ok"
         THEN /\ pc' = "compile"
              /\ UNCHANGED <<exit_code, stderr, ended, sim_err>>
         ELSE /\ stderr' = IF ErrorShown(r, found_model_error)
                           THEN Append(stderr, "error: " \o r) ELSE stderr
              /\ exit_code' = 1
              /\ pc' = "exit"
              /\ ended' = "sim_rejected"
              /\ sim_err' = Some(r)
    /\ UNCHANGED <<args, project, out_file, found_model_error, invoked, restOfCli>>

\* one stage of main.rs:198-201, each unwrapped
Stage(at, name, next) ==
    /\ pc = at
    /\ invoked' = invoked \cup {name}
    /\ \E ok \in BOOLEAN :
         IF ok
         THEN IF next = "exit"
              THEN /\ ReturnFromMain("simulated")
                   /\ UNCHANGED stderr
              ELSE /\ pc' = next
                   /\ UNCHANGED <<exit_code, stderr, ended>>
         ELSE PanicExit(name \o " failed")
    /\ UNCHANGED <<args, project, out_file, found_model_error, sim_err, restOfCli>>

\* main.rs:198
Compile == Stage("compile", "compile", "vm_new")
\* main.rs:199
VmNew == Stage("vm_new", "VM::new", "run")
\* main.rs:200-201
RunToEnd == Stage("run", "run_to_end", "exit")

InitCli ==
    /\ args \in ArgChoices
    /\ pc = "start"
    /\ exit_code = -1
    /\ stderr = <<>>
    /\ project = NoProject
    /\ out_file = None
    /\ found_model_error = FALSE
    /\ invoked = {}
    /\ ended = "running"
    /\ sim_err = None
    /\ DepsIdle
    /\ ParseIdle
    /\ DimIdle
    /\ UnitsIdle
    /\ TestIdle

NextCli ==
    \/ ParseArgs
    \/ OpenFile
    \/ ReadProject
    \/ Convert
    \/ Report
    \/ SimNew
    \/ Compile
    \/ VmNew
    \/ RunToEnd

SpecCli == InitCli /\ [][NextCli]_vars

\* ------------------------------------- parse_var, module arm (variable.rs)
\* parse_var is not among these sources.  Its module arm is modelled on what
\* the tests of model.rs pin down: test_module_parse (319-384) expects, for
\* the bindings (area -> hares.area) and (lynxes.lynxes -> hares.lynxes),
\* the inputs [area -> area, lynxes.lynxes -> lynxes] and direct_deps
\* {area}; test_all_deps (434-443) expects the module fed by aux_3 to
\* depend on aux_3.

\* at most this many input bindings on a module
MaxRefs == 2

ModuleName == <<"m">>

SrcStrings == { <<"a">>, <<"b">>, <<"b", ".", "o">>, <<"b", ".", "p">> }

DstStrings == { <<"m", ".", "x">>, <<"m", ".", "y">> }

ModuleChoices ==
    UNION { { [name |-> ModuleName, refs |-> r] :
                r \in [1..n -> [src : SrcStrings, dst : DstStrings]] }
            : n \in 0..MaxRefs }

HasDot(s) == \E i \in 1..Len(s) : s[i] = "."

\* "hares.area" is stored as the input "area" of module hares
StripModulePrefix(name, dst) ==
    IF StartsWith(dst, name \o <<".">>)
    THEN SubSeq(dst, Len(name) + 2, Len(dst))
    ELSE dst

\* model.rs:322-331: the ModuleInput list of the parsed module
ModuleInputs(xm) ==
    [i \in 1..Len(xm.refs) |->
        [src |-> xm.refs[i].src, dst |-> StripModulePrefix(xm.name, xm.refs[i].dst)]]

\* model.rs:332: the direct deps of the parsed module: the srcs that name a
\* variable of the enclosing model; a src qualified by a submodule
\* (lynxes.lynxes) adds nothing
ModuleDirectDeps(inputs) ==
    { inputs[i].src : i \in { j \in 1..Len(inputs) : ~HasDot(inputs[j].src) } }

\* parse_var on a module declaration (model.rs:377-383)
ParseVar ==
    /\ parsed = None
    /\ parsed' = Some([ident |-> x_module.name,
                       kind |-> "module",
                       inputs |-> ModuleInputs(x_module),
                       errors |-> <<>>,
                       direct_deps |-> ModuleDirectDeps(ModuleInputs(x_module))])
    /\ UNCHANGED <<x_module, restOfParse>>

InitParse ==
    /\ x_module \in ModuleChoices
    /\ parsed = None
    /\ DimIdle
    /\ UnitsIdle
    /\ DepsIdle
    /\ CliIdle
    /\ TestIdle

NextParse ==
    \/ ParseVar

SpecParse == InitParse /\ [][NextParse]_vars

\* ------------------------- Dimension::get_offset (datamodel.rs:281-296)

\* at most this many elements in a dimension
MaxElements == 4

ElementNames == { <<"x">>, <<"y">>, <<"z">> }

\* the subscripts looked up: the element names and one that is never an element
SubscriptNames == ElementNames \cup { <<"w">> }

DimensionChoices ==
    UNION { { [name |-> <<"d">>, elements |-> e] : e \in [1..n -> ElementNames] }
            : n \in 0..MaxElements }

\* GetOffset that keeps scanning and returns the last match
RECURSIVE GetOffsetLastFrom(_, _, _)
GetOffsetLastFrom(elements, sub, i) ==
    IF i >= Len(elements) THEN None
    ELSE LET rest == GetOffsetLastFrom(elements, sub, i + 1)
         IN  IF rest # None THEN rest
             ELSE IF elements[i + 1] = sub THEN Some(i) ELSE None

GetOffsetLast(dim, sub) == GetOffsetLastFrom(dim.elements, sub, 0)

\* datamodel.rs:289-294: the loop from the i-th element (zero-based) on
RECURSIVE GetOffsetFrom(_, _, _)
GetOffsetFrom(elements, sub, i) ==
    IF i >= Len(elements) THEN None
    ELSE IF elements[i + 1] = sub THEN Some(i)
    ELSE GetOffsetFrom(elements, sub, i + 1)

\* datamodel.rs:288-295
GetOffset(dim, sub) == GetOffsetFrom(dim.elements, sub, 0)

\* a call of dimension.get_offset(subscript)
CallGetOffset ==
    /\ offset = <<>>
    /\ offset' = <<GetOffset(dimension, subscript)>>
    /\ UNCHANGED <<dimension, subscript, restOfDim>>

InitDim ==
    /\ dimension \in DimensionChoices
    /\ subscript \in SubscriptNames
    /\ offset = <<>>
    /\ DepsIdle
    /\ CliIdle
    /\ ParseIdle
    /\ UnitsIdle
    /\ TestIdle

NextDim ==
    \/ CallGetOffset

SpecDim == InitDim /\ [][NextDim]_vars

\* --------------------------------- units::Context::new (units.rs:21-87)

\* at most this many units in the list given to Context::new
MaxUnits == 2

UnitNames == { <<"t">>, <<"p">> }

\* the alias lists of a unit: no alias twice in one list
AliasLists == { <<>>, << <<"x">> >>, << <<"y">> >>,
                << <<"x">>, <<"y">> >>, << <<"y">>, <<"x">> >> }

\* Unit.equation by what parse_equation makes of it: "none" is None, "empty"
\* parses to Ok(None), "parsed" to Ok(Some(ast)), "bad" to Err(errors)
EquationKinds == {"none", "empty", "parsed", "bad"}

\* the Units: name, equation and aliases (Context::new never reads disabled)
UnitChoices == [name : UnitNames, equation : EquationKinds, aliases : AliasLists]

UnitLists == UNION { [1..n -> UnitChoices] : n \in 0..MaxUnits }

\* MapInsert that keeps the value of a key already present
MapInsertKeepsFirst(m, k, v) ==
    [x \in DOMAIN m \cup {k} |-> IF x \in DOMAIN m THEN m[x] ELSE v]

\* HashMap::insert: the value of a key already present is replaced
MapInsert(m, k, v) ==
    [x \in DOMAIN m \cup {k} |-> IF x = k THEN v ELSE m[x]]

\* units.rs:27-29, 45-47: every alias of the unit is mapped to its name
RECURSIVE InsertAliases(_, _, _)
InsertAliases(m, unit, i) ==
    IF i > Len(unit.aliases) THEN m
    ELSE InsertAliases(MapInsert(m, unit.aliases[i], unit.name), unit, i + 1)

\* units.rs:30-33, 70: the component map {name -> 1}
PrimeComponents(unit) == [c \in {unit.name} |-> 1]

\* units.rs:89-92: build_unit_components returns Ok(UnitMap::new())
BuildUnitComponents == [c \in {} |-> 0]

\* units.rs:26-34: step 1, over the units without an equation
RECURSIVE Step1(_, _, _)
Step1(c, us, i) ==
    IF i > Len(us) THEN c
    ELSE IF us[i].equation # "none" THEN Step1(c, us, i + 1)
    ELSE Step1([aliases |-> InsertAliases(c.aliases, us[i], 1),
                units |-> MapInsert(c.units, us[i].name, PrimeComponents(us[i])),
                unit_errors |-> c.unit_errors],
               us, i + 1)

\* units.rs:44-74: step 2, over the units with an equation
RECURSIVE Step2(_, _, _)
Step2(c, us, i) ==
    IF i > Len(us) THEN c
    ELSE IF us[i].equation = "none" THEN Step2(c, us, i + 1)
    ELSE LET al == InsertAliases(c.aliases, us[i], 1)
         IN  IF us[i].equation = "bad"
             THEN Step2([aliases |-> al, units |-> c.units,
                         unit_errors |-> Append(c.unit_errors, us[i].name)],
                        us, i + 1)
             ELSE Step2([aliases |-> al,
                         units |-> MapInsert(c.units, us[i].name,
                                     IF us[i].equation = "empty"
                                     THEN PrimeComponents(us[i])
                                     ELSE BuildUnitComponents),
                         unit_errors |-> c.unit_errors],
                        us, i + 1)

EmptyContext == [aliases |-> [a \in {} |-> <<>>],
                 units |-> [u \in {} |-> [c \in {} |-> 0]],
                 unit_errors |-> <<>>]

\* units.rs:21-87
ContextNewResult(us) ==
    LET c == Step2(Step1(EmptyContext, us, 1), us, 1)
    IN  IF c.unit_errors = <<>>
        THEN [tag |-> "Ok", aliases |-> c.aliases, units |-> c.units,
              unit_errors |-> <<>>]
        ELSE [tag |-> "Err", aliases |-> EmptyContext.aliases,
              units |-> EmptyContext.units, unit_errors |-> c.unit_errors]

\* a call of Context::new(units)
ContextNew ==
    /\ ctx = <<>>
    /\ ctx' = <<ContextNewResult(units)>>
    /\ UNCHANGED <<units, restOfUnits>>

InitUnits ==
    /\ units \in UnitLists
    /\ ctx = <<>>
    /\ DepsIdle
    /\ CliIdle
    /\ ParseIdle
    /\ DimIdle
    /\ TestIdle

NextUnits ==
    \/ ContextNew

SpecUnits == InitUnits /\ [][NextUnits]_vars

\* ------------------------------------------------------------------ claims

\* no two variables of the list have the same ident
DistinctIdents(vl) == \A i, j \in 1..Len(vl) : i # j => vl[i].ident # vl[j].ident

\* C1 as stated: all_deps is order-independent: analysing a list and any
\* permutation of it in the same mode returns the same result.
C1_Original ==
    Returned(2) => results[2] = results[1]

\* C1 amended: on a list of pairwise distinct idents, analysing the list and
\* any permutation of it in the same mode either returns the same ident ->
\* dep-set map both times or fails both times (the error returned, its code
\* and the variable it names, may differ with the order).
C1_OrderIndependent ==
    (Returned(2) /\ DistinctIdents(calls[1].vars)) =>
        /\ (results[1].tag = "Ok") = (results[2].tag = "Ok")
        /\ results[1].tag # "Panic" /\ results[2].tag # "Panic"
        /\ results[1].tag = "Ok" => results[2].deps = results[1].deps

\* a permuted list of three distinct variables was analysed with a
\* transitive result
C1_Witness ==
    /\ Returned(2)
    /\ Len(calls[1].vars) = 3
    /\ DistinctIdents(calls[1].vars)
    /\ calls[2].vars # calls[1].vars
    /\ results[2].tag = "Ok"
    /\ \E id \in DOMAIN results[2].deps : Cardinality(results[2].deps[id]) = 2

\* two variables of one ident with different deps: the two orders gave
\* different maps
C1_RepeatedIdent ==
    /\ Returned(2)
    /\ ~DistinctIdents(calls[1].vars)
    /\ results[1].tag = "Ok" /\ results[2].tag = "Ok"
    /\ results[1].deps # results[2].deps

\* C2: stock cut: when the analysis succeeds, every stock has the empty
\* dep-set in the dt map and exactly the transitive dependencies of its own
\* (init-equation) direct deps in the initial map; inflows add nothing.
C2_StockCut ==
    \A s \in StocksOf(InputList) :
        /\ (Returned(1) /\ results[1].tag = "Ok") => results[1].deps[s] = {}
        /\ (Returned(2) /\ results[2].tag = "Ok") =>
               results[2].deps[s] = TransDeps(InputList, s)

\* both analyses succeeded for a stock with an inflow and a non-empty
\* initial dep-set that does not hold the inflow
C2_Witness ==
    /\ Returned(2)
    /\ results[1].tag = "Ok" /\ results[2].tag = "Ok"
    /\ \E s \in StocksOf(InputList) :
         /\ VarOf(InputList, s).inflows # {}
         /\ results[2].deps[s] # {}
         /\ VarOf(InputList, s).inflows \cap results[2].deps[s] = {}

\* C3 as stated: a list with a cycle of non-stock variables makes all_deps
\* return CircularDependency in both modes.
C3_Original ==
    \A i \in 1..Len(results) :
        HasNonStockCycle(InputList) =>
            /\ results[i].tag = "Err"
            /\ results[i].code = "CircularDependency"

\* C3 amended: a list with a cycle of non-stock variables makes all_deps
\* fail in both modes without unbounded recursion; the error is
\* CircularDependency, reported on a variable of a cycle, unless the list
\* also holds an absolute reference, which may be reported instead.
C3_CycleRejected ==
    /\ Len(stack) <= Len(InputList)
    /\ \A i \in 1..Len(results) :
         /\ HasNonStockCycle(InputList) =>
               /\ results[i].tag = "Err"
               /\ \/ /\ results[i].code = "CircularDependency"
                     /\ results[i].id \in TransDeps(InputList, results[i].id)
                  \/ /\ results[i].code = "NoAbsoluteReferences"
                     /\ AbsoluteUsers(InputList) # {}
         /\ (InputList = << [ident |-> <<"a">>, kind |-> "aux",
                              direct_deps |-> {<<"a">>}, inflows |-> {}] >>)
               => results[i] = Err("CircularDependency", <<"a">>)

\* both analyses of a mutual cycle a = b, b = a have failed
C3_Witness ==
    /\ Returned(2)
    /\ AbsoluteUsers(InputList) = {}
    /\ StocksOf(InputList) = {}
    /\ \E x, y \in IdentsOf(InputList) :
         /\ x # y
         /\ y \in Succ(InputList, x) /\ x \in Succ(InputList, y)
    /\ results[1].code = "CircularDependency"
    /\ results[2].code = "CircularDependency"

\* C4 as stated: any absolute reference makes all_deps fail with
\* NoAbsoluteReferences in both modes, whatever the referencing variable.
C4_Original ==
    \A i \in 1..Len(results) :
        AbsoluteUsers(InputList) # {} =>
            /\ results[i].tag = "Err"
            /\ results[i].code = "NoAbsoluteReferences"

\* C4 amended: an absolute reference makes the initial analysis fail, and
\* the dt analysis too when a variable other than a stock holds it; the
\* error is NoAbsoluteReferences unless the list also has a dependency
\* cycle, which may be reported (CircularDependency) instead.
C4_AbsoluteRejected ==
    /\ (Returned(1) /\ AbsoluteUsers(InputList) \ StocksOf(InputList) # {}) =>
          /\ results[1].tag = "Err"
          /\ \/ results[1].code = "NoAbsoluteReferences"
             \/ /\ results[1].code = "CircularDependency"
                /\ HasNonStockCycle(InputList)
    /\ (Returned(2) /\ AbsoluteUsers(InputList) # {}) =>
          /\ results[2].tag = "Err"
          /\ \/ results[2].code = "NoAbsoluteReferences"
             \/ /\ results[2].code = "CircularDependency"
                /\ HasCycle(InputList)

\* a module's absolute reference was rejected in both modes
C4_Witness ==
    /\ Returned(2)
    /\ \E id \in AbsoluteUsers(InputList) : VarOf(InputList, id).kind = "module"
    /\ results[1].code = "NoAbsoluteReferences"
    /\ results[2].code = "NoAbsoluteReferences"

\* C5: unresolved references are ignored: all_deps fails only on an absolute
\* reference or a dependency cycle, never panics, and every member of every
\* dep-set, returned or under construction, is the ident of a variable of
\* the list.
C5_UnresolvedIgnored ==
    /\ \A i \in 1..Len(results) :
         /\ results[i].tag # "Panic"
         /\ results[i].tag = "Err" =>
               (AbsoluteUsers(InputList) # {} \/ HasCycle(InputList))
         /\ \A id \in DOMAIN results[i].deps :
               results[i].deps[id] \subseteq IdentsOf(InputList)
    /\ \A k \in 1..Len(stack) : stack[k].all_deps \subseteq IdentsOf(InputList)

\* both analyses succeeded on a list with an unresolved reference next to a
\* resolved one
C5_Witness ==
    /\ Returned(2)
    /\ results[1].tag = "Ok" /\ results[2].tag = "Ok"
    /\ \E id \in IdentsOf(InputList) :
         /\ \E d \in VarOf(InputList, id).direct_deps :
               ~StartsWith(d, <<"\\", ".">>) /\ FirstSegment(d) \notin IdentsOf(InputList)
         /\ results[2].deps[id] # {}

\* the union the claim C6 describes, for the i-th result
UnionOfDeps(i, v) ==
    UNION { {d} \cup results[i].deps[d] : d \in Succ(InputList, v) }

\* C6 as stated: for every variable not cut as a stock, the dep-set is the
\* union over its resolved direct deps d of {d} and deps[d].
C6_Original ==
    /\ (Returned(1) /\ results[1].tag = "Ok") =>
          \A v \in IdentsOf(InputList) \ StocksOf(InputList) :
              results[1].deps[v] = UnionOfDeps(1, v)
    /\ (Returned(2) /\ results[2].tag = "Ok") =>
          \A v \in IdentsOf(InputList) :
              results[2].deps[v] = UnionOfDeps(2, v)

\* C6 amended: for every variable not cut as a stock, the dep-set is the
\* union over its resolved direct deps d of deps[d], and of {d} unless d is
\* a stock in the dt analysis.
C6_TransitiveUnion ==
    /\ (Returned(1) /\ results[1].tag = "Ok") =>
          \A v \in IdentsOf(InputList) \ StocksOf(InputList) :
              results[1].deps[v] =
                  UNION { ({d} \ StocksOf(InputList)) \cup results[1].deps[d] :
                            d \in Succ(InputList, v) }
    /\ (Returned(2) /\ results[2].tag = "Ok") =>
          \A v \in IdentsOf(InputList) :
              results[2].deps[v] = UnionOfDeps(2, v)

\* the dt analysis succeeded for a variable that refers to a stock and to
\* a variable with a dependency of its own
C6_Witness ==
    /\ Returned(2)
    /\ results[1].tag = "Ok" /\ results[2].tag = "Ok"
    /\ \E v \in IdentsOf(InputList) \ StocksOf(InputList) :
         /\ Succ(InputList, v) \cap StocksOf(InputList) # {}
         /\ Cardinality(results[2].deps[v]) = 2

\* C7: Model::new analyses the list in dt mode and in initial mode
\* independently: each deps field is None exactly when its analysis failed
\* and the returned map otherwise, each failure adds one error, and errors
\* is None if and only if both maps are populated.
C7_ModelNew ==
    /\ (Returned(1) /\ ~Returned(2)) => (Running /\ IsInitial)
    /\ model # NoModel =>
          LET m == model[1]
              failed == { i \in 1..2 : results[i].tag = "Err" }
          IN  /\ (m.dt_deps = None) = (1 \in failed)
              /\ (m.initial_deps = None) = (2 \in failed)
              /\ 1 \notin failed => m.dt_deps = Some(results[1].deps)
              /\ 2 \notin failed => m.initial_deps = Some(results[2].deps)
              /\ IF m.errors = None THEN failed = {}
                 ELSE Len(Unwrap(m.errors)) = Cardinality(failed)
              /\ (m.errors = None) = (IsSome(m.dt_deps) /\ IsSome(m.initial_deps))

\* a model was built whose dt analysis succeeded and whose initial analysis
\* failed
C7_Witness ==
    /\ model # NoModel
    /\ IsSome(model[1].dt_deps)
    /\ model[1].initial_deps = None
    /\ Len(Unwrap(model[1].errors)) = 1

\* how main ended when the requested subcommand did its work
Succeeded == ended \in {"converted", "simulated"}

\* how main ended on a parse, analysis or simulation failure
ParseOrSimulationFailure ==
    ended \in {"reader_error", "sim_rejected", "compile failed",
               "VM::new failed", "run_to_end failed"}

\* C8: mdl exits with status 0 only when the requested subcommand succeeded
\* and with status 1 on every parse, analysis or simulation failure, the
\* reader returning an error included.
C8_ExitStatus ==
    pc = "exit" =>
        /\ exit_code = 0 => Succeeded
        /\ ParseOrSimulationFailure => exit_code = 1

\* C9: convert --model-only on a project that was read exits with status 1
\* and creates no output file when the number of models is not 1, and
\* writes exactly the only model's encoding when it is 1.
C9_ModelOnly ==
    (pc = "exit" /\ args.subcommand = "convert" /\ args.is_model_only
                 /\ project.tag = "Ok") =>
        IF Len(project.models) # 1
        THEN exit_code = 1 /\ out_file = None
        ELSE out_file = Some(EncodeModel(project.models[1]))

\* C10: for a module, direct_deps is the set of the first dotted segments
\* of the src of every input binding (the whole src when it has no dot).
C10_ModulePrefixes ==
    IsSome(parsed) =>
        Unwrap(parsed).direct_deps =
            { FirstSegment(x_module.refs[i].src) : i \in 1..Len(x_module.refs) }

\* C11: acyclic modulo stock cuts: on a list without absolute references in
\* which every dependency cycle passes through a stock, the dt analysis
\* succeeds and puts no variable in its own dep-set, and the initial
\* analysis fails, with CircularDependency, exactly when the list has a
\* dependency cycle.
C11_AcyclicModuloStocks ==
    (AbsoluteUsers(InputList) = {} /\ ~HasNonStockCycle(InputList)) =>
        /\ Returned(1) =>
              /\ results[1].tag = "Ok"
              /\ \A v \in IdentsOf(InputList) : v \notin results[1].deps[v]
        /\ Returned(2) =>
              /\ (results[2].tag = "Err") = HasCycle(InputList)
              /\ results[2].tag = "Err" => results[2].code = "CircularDependency"
              /\ results[2].tag # "Panic"

\* a flow and a stock that refer to each other: the dt analysis succeeded
\* and the initial analysis reported the cycle
C11_Witness ==
    /\ Returned(2)
    /\ AbsoluteUsers(InputList) = {}
    /\ ~HasNonStockCycle(InputList)
    /\ \E f \in IdentsOf(InputList) \ StocksOf(InputList) :
         \E s \in StocksOf(InputList) :
            /\ s \in Succ(InputList, f) /\ f \in Succ(InputList, s)
    /\ results[1].tag = "Ok"
    /\ results[2].tag = "Err" /\ results[2].code = "CircularDependency"

\* the variables whose dep-set is memoized (Some) in the running analysis
Memoized == { id \in DOMAIN all_var_deps : IsSome(all_var_deps[id]) }

\* the variables whose all_deps_inner call has not returned
OnStack == { stack[k].id : k \in 1..Len(stack) }

\* C12: at every point of an all_deps run the active path and the memoized
\* variables are disjoint, a variable whose call has not returned is on the
\* active path and not memoized, and within one run a memoized dep-set is
\* never changed or dropped.
C12_ActiveMemoDisjoint ==
    /\ [](/\ processing \cap Memoized = {}
          /\ OnStack \subseteq processing
          /\ OnStack \cap Memoized = {})
    /\ [][ results' = results =>
             \A id \in Memoized :
                 /\ id \in DOMAIN all_var_deps'
                 /\ all_var_deps'[id] = all_var_deps[id] ]_vars

\* in the middle of a run: a variable is on the active path while two
\* others are memoized, one of them with a non-empty dep-set
C12_Witness ==
    /\ Running
    /\ processing # {}
    /\ Cardinality(Memoized) = 2
    /\ \E id \in Memoized : Unwrap(all_var_deps[id]) # {}

\* the zero-based positions of the elements equal to the subscript
PositionsOf(dim, sub) == { i \in 0..(Len(dim.elements) - 1) : dim.elements[i + 1] = sub }

\* C13: get_offset is positional lookup: it returns Some(i) for the
\* zero-based position i of the first element equal to the subscript, and
\* None if and only if no element equals the subscript.
C13_PositionalLookup ==
    offset # <<>> =>
        LET r == offset[1]
            at == PositionsOf(dimension, subscript)
        IN  /\ (r = None) = (at = {})
            /\ r # None =>
                  /\ Unwrap(r) \in at
                  /\ \A j \in at : Unwrap(r) <= j

\* the subscript occurs twice, first at position 1, and Some(1) was returned
C13_Witness ==
    /\ offset = <<Some(1)>>
    /\ Cardinality(PositionsOf(dimension, subscript)) = 2

\* none of the units given to Context::new has an equation
NoEquations == \A i \in 1..Len(units) : units[i].equation = "none"

AliasesOf(u) == { u.aliases[k] : k \in 1..Len(u.aliases) }

\* the context has an entry {name -> 1} for every unit, an alias entry for
\* every alias, and no other entries
ContextShape(c) ==
    /\ c.tag = "Ok"
    /\ DOMAIN c.units = { units[i].name : i \in 1..Len(units) }
    /\ \A n \in DOMAIN c.units : c.units[n] = [x \in {n} |-> 1]
    /\ DOMAIN c.aliases = UNION { AliasesOf(units[i]) : i \in 1..Len(units) }

\* C14 as stated: given units without equations, Context::new returns Ok
\* with {name -> 1} for every unit and every alias of a unit mapped to that
\* unit's name, and nothing else.
C14_Original ==
    (ctx # <<>> /\ NoEquations) =>
        /\ ContextShape(ctx[1])
        /\ \A i \in 1..Len(units) : \A a \in AliasesOf(units[i]) :
               ctx[1].aliases[a] = units[i].name

\* C14 amended: given units without equations, Context::new returns Ok with
\* {name -> 1} for every unit and every alias mapped to the name of the last
\* unit of the list that declares it, and nothing else.
C14_ContextOfPrimeUnits ==
    (ctx # <<>> /\ NoEquations) =>
        /\ ContextShape(ctx[1])
        /\ \A a \in DOMAIN ctx[1].aliases :
               \E i \in 1..Len(units) :
                  /\ a \in AliasesOf(units[i])
                  /\ \A j \in 1..Len(units) : a \in AliasesOf(units[j]) => j <= i
                  /\ ctx[1].aliases[a] = units[i].name

\* a context was built from two units of different names that declare the
\* same alias
C14_Witness ==
    /\ ctx # <<>> /\ NoEquations
    /\ Len(units) = 2
    /\ units[1].name # units[2].name
    /\ AliasesOf(units[1]) \cap AliasesOf(units[2]) # {}
    /\ Cardinality(DOMAIN ctx[1].aliases) = 2

\* C15: in the map of the dt analysis no dep-set holds a stock: a variable
\* that reaches a stock gets neither the stock nor anything through it; its
\* dep-set is what it reaches along non-stock variables, stocks left out.
C15_NoStockInDt ==
    (Returned(1) /\ results[1].tag = "Ok") =>
        \A v \in IdentsOf(InputList) :
            /\ results[1].deps[v] \cap StocksOf(InputList) = {}
            /\ results[1].deps[v] = TransDepsCut(InputList, v) \ StocksOf(InputList)
            /\ (Succ(InputList, v) \subseteq StocksOf(InputList)) => results[1].deps[v] = {}

\* the dt analysis gave the empty dep-set to a variable that refers to a
\* stock which has a dependency of its own
C15_Witness ==
    /\ Returned(1) /\ results[1].tag = "Ok"
    /\ \E v \in IdentsOf(InputList) \ StocksOf(InputList) :
         \E s \in StocksOf(InputList) :
            /\ Succ(InputList, v) = {s}
            /\ Succ(InputList, s) \ {v, s} # {}
            /\ results[1].deps[v] = {}

\* C16: all_deps never panics: when the top-level loop is through, every
\* variable has a computed dep-set, so the map returned has exactly the
\* idents of the list as keys; and every key all_deps_inner indexes a map
\* with (its id, a dep that was found in all_vars) is a key of both maps.
C16_UnwrapSafe ==
    /\ \A i \in 1..Len(results) :
         /\ results[i].tag # "Panic"
         /\ results[i].tag = "Ok" => DOMAIN results[i].deps = IdentsOf(calls[i].vars)
    /\ Running =>
         /\ DOMAIN all_var_deps = DOMAIN all_vars
         /\ OnStack \cup processing \subseteq DOMAIN all_vars
         /\ (stack = <<>> /\ idx > Len(CurVars)) =>
                \A id \in DOMAIN all_var_deps : IsSome(all_var_deps[id])
         /\ (stack = <<>> /\ idx <= Len(CurVars)) =>
                /\ IdentOf(CurVars[idx]) \in DOMAIN all_vars
                /\ \A k \in 1..(idx - 1) : IsSome(all_var_deps[IdentOf(CurVars[k])])

\* both analyses of three variables returned maps with three keys; the last
\* variable of the list is a stock that the first one refers to, so its
\* entry was computed before the top-level loop came to it
C16_Witness ==
    /\ Returned(2)
    /\ results[1].tag = "Ok" /\ results[2].tag = "Ok"
    /\ Cardinality(DOMAIN results[1].deps) = 3
    /\ Cardinality(DOMAIN results[2].deps) = 3
    /\ InputList[3].ident \in StocksOf(InputList)
    /\ InputList[3].ident \in Succ(InputList, InputList[1].ident)

\* the last line on stderr is the error Simulation::new returned
SimErrorPrinted ==
    /\ stderr # <<>>
    /\ stderr[Len(stderr)] = "error: " \o Unwrap(sim_err)

\* C17: in simulate a rejected plan never runs: when Simulation::new
\* returns an error the process exits with status 1 and none of compile,
\* VM::new and run_to_end is ever invoked; the error is printed unless it is
\* NotSimulatable and a model-level error was already printed.
C17_RejectedNeverRuns ==
    /\ invoked # {} => sim_err = None
    /\ IsSome(sim_err) =>
          /\ pc = "exit" /\ exit_code = 1
          /\ invoked = {}
          /\ (~SimErrorPrinted) =
                (Unwrap(sim_err) = "NotSimulatable" /\ found_model_error)
          /\ found_model_error =>
                \E k \in 1..Len(stderr) : stderr[k] = "error in model"

\* Simulation::new returned NotSimulatable after a model-level error was
\* printed: the process exited with status 1 without printing the error
C17_Witness ==
    /\ sim_err = Some("NotSimulatable")
    /\ found_model_error
    /\ exit_code = 1
    /\ invoked = {}
    /\ ~SimErrorPrinted

\* C18: whenever the dt analysis of a list fails, the initial analysis of
\* the same list fails too, so Model::new never builds a model with
\* initial_deps populated and dt_deps None.
C18_DtFailsInitialFails ==
    /\ (Returned(2) /\ results[1].tag = "Err") => results[2].tag = "Err"
    /\ model # NoModel => ~(model[1].dt_deps = None /\ IsSome(model[1].initial_deps))

\* a model was built from a list on which both analyses failed, the dt
\* analysis on a cycle of non-stock variables
C18_Witness ==
    /\ model # NoModel
    /\ model[1].dt_deps = None /\ model[1].initial_deps = None
    /\ results[1].code = "CircularDependency"
    /\ StocksOf(InputList) # {}

\* C19: when both analyses succeed, the dt map is pointwise contained in
\* the initial map.
C19_DtWithinInitial ==
    (Returned(2) /\ results[1].tag = "Ok" /\ results[2].tag = "Ok") =>
        \A v \in IdentsOf(InputList) : results[1].deps[v] \subseteq results[2].deps[v]

\* both analyses succeeded and for some variable the dt dep-set is non-empty
\* and strictly smaller than the initial one
C19_Witness ==
    /\ Returned(2) /\ results[1].tag = "Ok" /\ results[2].tag = "Ok"
    /\ \E v \in IdentsOf(InputList) :
         /\ results[1].deps[v] # {}
         /\ results[1].deps[v] # results[2].deps[v]

====
